---- MODULE Spec2Model ----
(***************************************************************************)
(* AutoReconnect (src/auto_link.h): a reconnect supervisor polled from a   *)
(* single cooperative loop.  The object's fields are the state; every      *)
(* public method is one atomic action.  millis() is the Arduino clock: the *)
(* model keeps the true time in `now` and reads it through Millis, which   *)
(* is constant within one method call.                                     *)
(*                                                                         *)
(* The callbacks are std::function slots: the model keeps whether each     *)
(* slot is set; the values the status and reconnect callbacks return are   *)
(* inputs of loop().  connectionTimeoutMs and connectionName are written   *)
(* by their setters only and read by no decision (the timeout check is     *)
(* commented out, the name is message text), so they are left out.         *)
(***************************************************************************)
EXTENDS Integers, Sequences, FiniteSets

\* ---- bounds of the model ------------------------------------------------
\* the clock runs from 0 to MaxTime
MaxTime == 2
\* setReconnectDelay is called with 0..MaxDelayArg
MaxDelayArg == 1
\* setMaxAttempts is called with 1..MaxAttemptsArg
MaxAttemptsArg == 2

\* the clock of the scenarios runs from 0 to ScenarioEnd, in steps of 50
ScenarioEnd == 1000

\* ---- program constants --------------------------------------------------
DefaultMaxReconnectAttempts == 5
DefaultReconnectDelayMs == 30000

VARIABLES
    shouldReconnect,      \* _shouldReconnect      (spec: enabled)
    wasConnected,         \* _wasConnected
    lastConnectAttempt,   \* _lastConnectAttempt   (spec: lastAttemptTime)
    connectionStartTime,  \* _connectionStartTime
    reconnectAttempts,    \* _reconnectAttempts    (spec: attemptCount)
    maxReconnectAttempts, \* _maxReconnectAttempts (spec: maxAttempts)
    reconnectDelayMs,     \* _reconnectDelayMs
    reconnectCallback,    \* TRUE iff _reconnectCallback is set
    statusCallback,       \* TRUE iff _statusCallback is set
    logCallback,          \* TRUE iff _logCallback is set
    errorCallback,        \* TRUE iff _errorCallback is set
    now,                  \* the clock behind millis()
    \* ---- history of the run (not program state) ----
    last,                 \* the last method called and what it invoked
    triggers,             \* reconnect-callback invocations since the last
                          \* enable(), reset() or observation of connected
    lastTrigger,          \* time of the last reconnect-callback invocation, -1 if none
    resetSince,           \* TRUE iff reset() was called since that invocation
    lastStarted,          \* what the reconnect callback returned at that
                          \* invocation, TRUE if there was none
    dropTime              \* time of the loop() that last saw the link go down
                          \* while enabled, if neither a reconnect-callback
                          \* invocation nor reset() has followed it; else -1

fields == <<shouldReconnect, wasConnected, lastConnectAttempt,
            connectionStartTime, reconnectAttempts>>
config == <<maxReconnectAttempts, reconnectDelayMs>>
callbacks == <<reconnectCallback, statusCallback, logCallback, errorCallback>>
history == <<last, triggers, lastTrigger, resetSince,
                   lastStarted, dropTime>>
vars == <<fields, config, callbacks, now, history>>

\* ---- helpers --------------------------------------------------------------
\* millis(): the clock.  It is an unsigned long that wraps after 2^32 ms; the
\* model's clock stops at MaxTime, far below the wrap.
Millis == now

\* a - b on unsigned long.  Every timestamp the object stores is 0 or an
\* earlier reading of millis() (TimestampsInPast), so below the wrap the
\* difference is never negative and the modular reduction changes nothing.
ULongSub(a, b) == a - b

\* A message handed to the log or error callback: its fixed text and, for
\* "reconnecting (k/n)", the two numbers formatted into it.
Msg(text) == [text |-> text, k |-> 0, n |-> 0]
MsgKN(text, k, n) == [text |-> text, k |-> k, n |-> n]

\* if (_logCallback) _logCallback(m)   /   if (_errorCallback) _errorCallback(m)
Log(m) == IF logCallback THEN <<m>> ELSE <<>>
Err(m) == IF errorCallback THEN <<m>> ELSE <<>>

\* the object's mutable fields as a record
Self == [shouldReconnect |-> shouldReconnect,
         wasConnected |-> wasConnected,
         lastConnectAttempt |-> lastConnectAttempt,
         connectionStartTime |-> connectionStartTime,
         reconnectAttempts |-> reconnectAttempts]

Store(s) ==
    /\ shouldReconnect' = s.shouldReconnect
    /\ wasConnected' = s.wasConnected
    /\ lastConnectAttempt' = s.lastConnectAttempt
    /\ connectionStartTime' = s.connectionStartTime
    /\ reconnectAttempts' = s.reconnectAttempts

\* what a method call leaves behind in `last`
Called(op, arg, statusCalls, fired, rr, logs, errors) ==
    [op |-> op, arg |-> arg, statusCalls |-> statusCalls, fired |-> fired,
     rr |-> rr, logs |-> logs, errors |-> errors]

Plain(op, logs) == Called(op, FALSE, 0, 0, FALSE, logs, <<>>)

\* ---- construction ---------------------------------------------------------
\* The field initialisers and the constructor: nothing is set, the clock is
\* at the start of its run.
Init ==
    /\ shouldReconnect = TRUE
    /\ wasConnected = FALSE
    /\ lastConnectAttempt = 0
    /\ connectionStartTime = 0
    /\ reconnectAttempts = 0
    /\ maxReconnectAttempts = DefaultMaxReconnectAttempts
    /\ reconnectDelayMs = DefaultReconnectDelayMs
    /\ reconnectCallback = FALSE
    /\ statusCallback = FALSE
    /\ logCallback = FALSE
    /\ errorCallback = FALSE
    /\ now = 0
    /\ last = Plain("construct", <<>>)
    /\ triggers = 0
    /\ lastTrigger = -1
    /\ resetSince = FALSE
    /\ lastStarted = TRUE
    /\ dropTime = -1

\* ---- configuration and callback setters -----------------------------------
setMaxAttempts(maxAttempts) ==
    /\ maxReconnectAttempts' = maxAttempts
    /\ last' = Plain("setMaxAttempts", <<>>)
    /\ UNCHANGED <<fields, reconnectDelayMs, callbacks, now,
                   triggers, lastTrigger, resetSince,
                   lastStarted, dropTime>>

setReconnectDelay(delayMs) ==
    /\ reconnectDelayMs' = delayMs
    /\ last' = Plain("setReconnectDelay", <<>>)
    /\ UNCHANGED <<fields, maxReconnectAttempts, callbacks, now,
                   triggers, lastTrigger, resetSince,
                   lastStarted, dropTime>>

setReconnectCallback(callback) ==
    /\ reconnectCallback' = callback
    /\ last' = Plain("setReconnectCallback", <<>>)
    /\ UNCHANGED <<fields, config, statusCallback, logCallback, errorCallback,
                   now, triggers, lastTrigger, resetSince,
                   lastStarted, dropTime>>

setStatusCallback(callback) ==
    /\ statusCallback' = callback
    /\ last' = Plain("setStatusCallback", <<>>)
    /\ UNCHANGED <<fields, config, reconnectCallback, logCallback, errorCallback,
                   now, triggers, lastTrigger, resetSince,
                   lastStarted, dropTime>>

setLogCallback(callback) ==
    /\ logCallback' = callback
    /\ last' = Plain("setLogCallback", <<>>)
    /\ UNCHANGED <<fields, config, reconnectCallback, statusCallback, errorCallback,
                   now, triggers, lastTrigger, resetSince,
                   lastStarted, dropTime>>

setErrorCallback(callback) ==
    /\ errorCallback' = callback
    /\ last' = Plain("setErrorCallback", <<>>)
    /\ UNCHANGED <<fields, config, reconnectCallback, statusCallback, logCallback,
                   now, triggers, lastTrigger, resetSince,
                   lastStarted, dropTime>>

\* ---- control methods ------------------------------------------------------
enable ==
    /\ shouldReconnect' = TRUE
    /\ reconnectAttempts' = 0
    /\ last' = Plain("enable", Log(Msg("auto-reconnect enabled")))
    /\ triggers' = 0
    /\ UNCHANGED <<wasConnected, lastConnectAttempt, connectionStartTime,
                   config, callbacks, now, lastTrigger, resetSince,
                   lastStarted, dropTime>>

\* a slip of disable(): it clears the attempt count as enable() does
disable_ResetsCount ==
    /\ shouldReconnect' = FALSE
    /\ reconnectAttempts' = 0
    /\ last' = Plain("disable", Log(Msg("auto-reconnect disabled")))
    /\ UNCHANGED <<wasConnected, lastConnectAttempt, connectionStartTime,
                   config, callbacks, now, triggers, lastTrigger, resetSince,
                   lastStarted, dropTime>>

disable ==
    /\ shouldReconnect' = FALSE
    /\ last' = Plain("disable", Log(Msg("auto-reconnect disabled")))
    /\ UNCHANGED <<wasConnected, lastConnectAttempt, connectionStartTime,
                   reconnectAttempts, config, callbacks, now,
                   triggers, lastTrigger, resetSince,
                   lastStarted, dropTime>>

\* a slip of reset(): it also enables
reset_Enables ==
    /\ shouldReconnect' = TRUE
    /\ reconnectAttempts' = 0
    /\ lastConnectAttempt' = 0
    /\ connectionStartTime' = 0
    /\ last' = Plain("reset", <<>>)
    /\ triggers' = 0
    /\ resetSince' = (lastTrigger # -1)
    /\ dropTime' = -1
    /\ UNCHANGED <<wasConnected, config, callbacks, now, lastTrigger,
                   lastStarted>>

reset ==
    /\ reconnectAttempts' = 0
    /\ lastConnectAttempt' = 0
    /\ connectionStartTime' = 0
    /\ last' = Plain("reset", <<>>)
    /\ triggers' = 0
    /\ resetSince' = (lastTrigger # -1)
    /\ dropTime' = -1
    /\ UNCHANGED <<shouldReconnect, wasConnected, config, callbacks, now,
                   lastTrigger, lastStarted>>

onConnectionAttemptStarted ==
    /\ connectionStartTime' = Millis
    /\ lastConnectAttempt' = Millis
    /\ last' = Plain("onConnectionAttemptStarted", <<>>)
    /\ UNCHANGED <<shouldReconnect, wasConnected, reconnectAttempts,
                   config, callbacks, now, triggers, lastTrigger, resetSince,
                   lastStarted, dropTime>>

\* ---- onConnectionStatusChanged -------------------------------------------
\* slips of the method: the time of the disconnect is not recorded; the
\* attempt count, or the start time of the attempt, is not cleared on connect
StatusChanged_NoStamp(s, connected) ==
    IF connected /\ ~s.wasConnected
    THEN [st |-> [s EXCEPT !.reconnectAttempts = 0,
                           !.connectionStartTime = 0,
                           !.wasConnected = connected],
          logs |-> Log(Msg("connected successfully"))]
    ELSE IF ~connected /\ s.wasConnected /\ s.shouldReconnect
    THEN [st |-> [s EXCEPT !.wasConnected = connected],
          logs |-> Log(Msg("disconnected, will attempt reconnect"))]
    ELSE [st |-> [s EXCEPT !.wasConnected = connected], logs |-> <<>>]

\* a slip of the method: the resets on connect are inside if (_logCallback)
StatusChanged_LogGated(s, connected) ==
    IF connected /\ ~s.wasConnected
    THEN IF logCallback
         THEN [st |-> [s EXCEPT !.reconnectAttempts = 0,
                                !.connectionStartTime = 0,
                                !.wasConnected = connected],
               logs |-> <<Msg("connected successfully")>>]
         ELSE [st |-> [s EXCEPT !.wasConnected = connected], logs |-> <<>>]
    ELSE IF ~connected /\ s.wasConnected /\ s.shouldReconnect
    THEN [st |-> [s EXCEPT !.lastConnectAttempt = Millis,
                           !.wasConnected = connected],
          logs |-> Log(Msg("disconnected, will attempt reconnect"))]
    ELSE [st |-> [s EXCEPT !.wasConnected = connected], logs |-> <<>>]

StatusChanged_KeepsCount(s, connected) ==
    IF connected /\ ~s.wasConnected
    THEN [st |-> [s EXCEPT !.connectionStartTime = 0,
                           !.wasConnected = connected],
          logs |-> Log(Msg("connected successfully"))]
    ELSE IF ~connected /\ s.wasConnected /\ s.shouldReconnect
    THEN [st |-> [s EXCEPT !.lastConnectAttempt = Millis,
                           !.wasConnected = connected],
          logs |-> Log(Msg("disconnected, will attempt reconnect"))]
    ELSE [st |-> [s EXCEPT !.wasConnected = connected], logs |-> <<>>]

StatusChanged_KeepsStart(s, connected) ==
    IF connected /\ ~s.wasConnected
    THEN [st |-> [s EXCEPT !.reconnectAttempts = 0,
                           !.wasConnected = connected],
          logs |-> Log(Msg("connected successfully"))]
    ELSE IF ~connected /\ s.wasConnected /\ s.shouldReconnect
    THEN [st |-> [s EXCEPT !.lastConnectAttempt = Millis,
                           !.wasConnected = connected],
          logs |-> Log(Msg("disconnected, will attempt reconnect"))]
    ELSE [st |-> [s EXCEPT !.wasConnected = connected], logs |-> <<>>]

\* a slip of the method: wasConnected is assigned inside the branches, and the
\* disconnect seen while disabled is forgotten
StatusChanged_InBranches(s, connected) ==
    IF connected /\ ~s.wasConnected
    THEN [st |-> [s EXCEPT !.reconnectAttempts = 0,
                           !.connectionStartTime = 0,
                           !.wasConnected = connected],
          logs |-> Log(Msg("connected successfully"))]
    ELSE IF ~connected /\ s.wasConnected /\ s.shouldReconnect
    THEN [st |-> [s EXCEPT !.lastConnectAttempt = Millis,
                           !.wasConnected = connected],
          logs |-> Log(Msg("disconnected, will attempt reconnect"))]
    ELSE [st |-> s, logs |-> <<>>]

\* The method as a function of the fields s: the fields it leaves and the
\* log messages it emits.
StatusChanged(s, connected) ==
    IF connected /\ ~s.wasConnected
    THEN [st |-> [s EXCEPT !.reconnectAttempts = 0,
                           !.connectionStartTime = 0,
                           !.wasConnected = connected],
          logs |-> Log(Msg("connected successfully"))]
    ELSE IF ~connected /\ s.wasConnected
    THEN IF s.shouldReconnect
         THEN [st |-> [s EXCEPT !.lastConnectAttempt = Millis,
                                !.wasConnected = connected],
               logs |-> Log(Msg("disconnected, will attempt reconnect"))]
         ELSE [st |-> [s EXCEPT !.wasConnected = connected], logs |-> <<>>]
    ELSE [st |-> [s EXCEPT !.wasConnected = connected], logs |-> <<>>]

onConnectionStatusChanged(connected) ==
    LET r == StatusChanged(Self, connected) IN
    /\ Store(r.st)
    /\ last' = Called("onConnectionStatusChanged", connected, 0, 0, FALSE,
                      r.logs, <<>>)
    /\ triggers' = IF connected THEN 0 ELSE triggers
    /\ UNCHANGED <<config, callbacks, now, lastTrigger, resetSince,
                   lastStarted, dropTime>>

\* ---- loop ------------------------------------------------------------------
\* slips of the auto-reconnect condition: ">=" for ">", the delay test
\* forgotten, the enabled test forgotten
ShouldAttempt_AtDelay(s, currentlyConnected) ==
    /\ ~currentlyConnected
    /\ s.shouldReconnect
    /\ s.reconnectAttempts < maxReconnectAttempts
    /\ ULongSub(Millis, s.lastConnectAttempt) >= reconnectDelayMs

ShouldAttempt_NoDelay(s, currentlyConnected) ==
    /\ ~currentlyConnected
    /\ s.shouldReconnect
    /\ s.reconnectAttempts < maxReconnectAttempts

ShouldAttempt_WhenDisabled(s, currentlyConnected) ==
    /\ ~currentlyConnected
    /\ s.reconnectAttempts < maxReconnectAttempts
    /\ ULongSub(Millis, s.lastConnectAttempt) > reconnectDelayMs

\* the condition of the auto-reconnect branch
ShouldAttempt(s, currentlyConnected) ==
    /\ ~currentlyConnected
    /\ s.shouldReconnect
    /\ s.reconnectAttempts < maxReconnectAttempts
    /\ ULongSub(Millis, s.lastConnectAttempt) > reconnectDelayMs

\* slips of the bookkeeping: the attempt time not recorded, the attempt not
\* counted
Attempt_NoStamp(s) ==
    [s EXCEPT !.reconnectAttempts = s.reconnectAttempts + 1,
              !.connectionStartTime = Millis]

Attempt_NoCount(s) ==
    [s EXCEPT !.lastConnectAttempt = Millis,
              !.connectionStartTime = Millis]

\* the bookkeeping of an attempt, done before the reconnect callback is called
Attempt(s) ==
    [s EXCEPT !.reconnectAttempts = s.reconnectAttempts + 1,
              !.lastConnectAttempt = Millis,
              !.connectionStartTime = Millis]

\* a slip of the stop condition: ">" for ">="
MaxAttemptsReached_Over(s, currentlyConnected) ==
    /\ s.reconnectAttempts > maxReconnectAttempts
    /\ ~currentlyConnected
    /\ s.shouldReconnect

\* the condition of the "stop trying after max attempts" branch
MaxAttemptsReached(s, currentlyConnected) ==
    /\ s.reconnectAttempts >= maxReconnectAttempts
    /\ ~currentlyConnected
    /\ s.shouldReconnect

\* a slip of the test: "&&" for "||"
CallbacksUnset_Both == ~statusCallback /\ ~reconnectCallback

\* the test loop() starts with: it returns at once when this holds
CallbacksUnset == ~statusCallback \/ ~reconnectCallback

\* One call of loop(): currentlyConnected is what the status callback
\* returns, started is what the reconnect callback returns if it is called.
\* lastStarted and dropTime are left to the host: Unobserved or Observe.
loop(currentlyConnected, started) ==
    IF CallbacksUnset
    THEN /\ last' = Plain("loop", <<>>)
         /\ UNCHANGED <<fields, config, callbacks, now,
                        triggers, lastTrigger, resetSince>>
    ELSE LET u == IF currentlyConnected # wasConnected
                  THEN StatusChanged(Self, currentlyConnected)
                  ELSE [st |-> Self, logs |-> <<>>]
             fire == ShouldAttempt(u.st, currentlyConnected)
             a == IF fire THEN Attempt(u.st) ELSE u.st
             attemptLogs ==
                 IF fire
                 THEN Log(MsgKN("reconnecting", a.reconnectAttempts, maxReconnectAttempts))
                 ELSE <<>>
             attemptErrs ==
                 IF fire /\ ~started
                 THEN Err(Msg("reconnect attempt failed to start"))
                 ELSE <<>>
             stop == MaxAttemptsReached(a, currentlyConnected)
             f == IF stop THEN [a EXCEPT !.shouldReconnect = FALSE] ELSE a
             stopErrs ==
                 IF stop
                 THEN Err(Msg("auto-reconnect disabled after max attempts"))
                 ELSE <<>>
         IN /\ Store(f)
            /\ last' = Called("loop", currentlyConnected, 1,
                              IF fire THEN 1 ELSE 0, fire /\ started,
                              u.logs \o attemptLogs, attemptErrs \o stopErrs)
            /\ triggers' = IF currentlyConnected THEN 0
                           ELSE IF fire THEN triggers + 1 ELSE triggers
            /\ lastTrigger' = IF fire THEN now ELSE lastTrigger
            /\ resetSince' = IF fire THEN FALSE ELSE resetSince
            /\ UNCHANGED <<config, callbacks, now>>

\* a loop() of a run that keeps no record in lastStarted and dropTime
Unobserved == UNCHANGED <<lastStarted, dropTime>>

\* a loop() of a run that keeps the record: lastStarted is what the reconnect
\* callback returned the last time it was called, dropTime the clock of the
\* last loop() that saw the link go down while enabled (-1: none since reset())
Observe(currentlyConnected, started) ==
    /\ lastStarted' = IF last'.fired = 1 THEN started ELSE lastStarted
    /\ dropTime' =
           IF /\ ~CallbacksUnset
              /\ wasConnected /\ ~currentlyConnected /\ shouldReconnect
           THEN now
           ELSE dropTime

\* ---- the clock -------------------------------------------------------------
\* A millisecond passes between two method calls.
Tick ==
    /\ now < MaxTime
    /\ now' = now + 1
    /\ UNCHANGED <<fields, config, callbacks, history>>

\* ---- the host calling the public methods in any order ---------------------
SetMaxAttempts == \E m \in 1..MaxAttemptsArg : setMaxAttempts(m)
SetReconnectDelay == \E d \in 0..MaxDelayArg : setReconnectDelay(d)
SetReconnectCallback == \E b \in BOOLEAN : setReconnectCallback(b)
SetStatusCallback == \E b \in BOOLEAN : setStatusCallback(b)
SetLogCallback == \E b \in BOOLEAN : setLogCallback(b)
SetErrorCallback == \E b \in BOOLEAN : setErrorCallback(b)
OnConnectionStatusChanged == \E c \in BOOLEAN : onConnectionStatusChanged(c)
Loop == \E c \in BOOLEAN, r \in BOOLEAN : loop(c, r) /\ Unobserved

Next ==
    \/ SetMaxAttempts
    \/ SetReconnectDelay
    \/ SetReconnectCallback
    \/ SetStatusCallback
    \/ SetLogCallback
    \/ SetErrorCallback
    \/ enable
    \/ disable
    \/ reset
    \/ onConnectionAttemptStarted
    \/ OnConnectionStatusChanged
    \/ Loop
    \/ Tick

Spec == Init /\ [][Next]_vars

\* Stored timestamps are never ahead of the clock: the subtraction in loop()
\* does not wrap.
TimestampsInPast ==
    /\ lastConnectAttempt \in 0..Millis
    /\ connectionStartTime \in 0..Millis

\* ---- restricted hosts ------------------------------------------------------
\* A freshly constructed object after its configuration: setMaxAttempts,
\* setReconnectDelay, both required callbacks set, the log and error
\* callbacks set or not.
InitConfigured ==
    /\ shouldReconnect = TRUE
    /\ wasConnected = FALSE
    /\ lastConnectAttempt = 0
    /\ connectionStartTime = 0
    /\ reconnectAttempts = 0
    /\ maxReconnectAttempts \in 1..MaxAttemptsArg
    /\ reconnectDelayMs \in 0..MaxDelayArg
    /\ reconnectCallback = TRUE
    /\ statusCallback = TRUE
    /\ logCallback \in BOOLEAN
    /\ errorCallback \in BOOLEAN
    /\ now = 0
    /\ last = Plain("configure", <<>>)
    /\ triggers = 0
    /\ lastTrigger = -1
    /\ resetSince = FALSE
    /\ lastStarted = TRUE
    /\ dropTime = -1

\* Only loop() is called; the link stays down and every attempt starts.
PollDown == loop(FALSE, TRUE) /\ Unobserved

NextPolls ==
    \/ PollDown
    \/ Tick

SpecPolls == InitConfigured /\ [][NextPolls]_vars

\* The six operations in any order, the configuration fixed.
NextOps ==
    \/ enable
    \/ disable
    \/ reset
    \/ onConnectionAttemptStarted
    \/ OnConnectionStatusChanged
    \/ Loop
    \/ Tick

SpecOps == InitConfigured /\ [][NextOps]_vars

\* No enable(), no reset(), and connected is never observed.
LoopDown == \E r \in BOOLEAN : loop(FALSE, r) /\ Unobserved
StatusDown == onConnectionStatusChanged(FALSE)

NextBudget ==
    \/ LoopDown
    \/ StatusDown
    \/ disable
    \/ onConnectionAttemptStarted
    \/ Tick

SpecBudget == InitConfigured /\ [][NextBudget]_vars

\* ---- vocabulary of the properties -----------------------------------------
\* the step is a call of method op (Tick is the only step that moves the clock)
IsCall(op) == now' = now /\ last'.op = op

\* the step is a loop() that got past the callback test
IsPoll == IsCall("loop") /\ statusCallback /\ reconnectCallback

\* how many times a message with this text is in a sequence of messages
Count(msgs, text) == Cardinality({i \in 1..Len(msgs) : msgs[i].text = text})

MaxAttemptsText == "auto-reconnect disabled after max attempts"

\* ---- C1 --------------------------------------------------------------------
\* the fields as the status update of a loop() that reads `connected` leaves them
AttemptsAfterStatus(connected) ==
    IF connected /\ ~wasConnected THEN 0 ELSE reconnectAttempts
LastAttemptAfterStatus(connected) ==
    IF ~connected /\ wasConnected /\ shouldReconnect THEN now ELSE lastConnectAttempt

\* the four conditions of the reconnect decision, on the fields after the
\* status update
Decision(connected) ==
    /\ ~connected
    /\ shouldReconnect
    /\ AttemptsAfterStatus(connected) < maxReconnectAttempts
    /\ now - LastAttemptAfterStatus(connected) > reconnectDelayMs

\* C1 as stated: in every loop() with both callbacks set the reconnect
\* callback is invoked iff the four conditions hold after the status update,
\* at most once, and a loop() that does not invoke it leaves attemptCount
\* unchanged.
C1_Original ==
    [][IsPoll =>
        /\ last'.fired \in {0, 1}
        /\ (last'.fired = 1 <=> Decision(last'.arg))
        /\ (last'.fired = 0 => reconnectAttempts' = reconnectAttempts)]_vars

\* C1 (amended): in every loop() with both callbacks set the reconnect
\* callback is invoked iff the four conditions hold after the status update,
\* at most once; a loop() that does not invoke it leaves attemptCount at the
\* value the status update gave it: unchanged, except 0 when the loop observed
\* the change from disconnected to connected.
C1_Decision ==
    [][IsPoll =>
        /\ last'.fired \in {0, 1}
        /\ (last'.fired = 1 <=> Decision(last'.arg))
        /\ (last'.fired = 0 =>
               reconnectAttempts' = AttemptsAfterStatus(last'.arg))]_vars

\* a loop() that observed the recovery, with attempts made before it, and
\* invoked nothing
C1_Witness ==
    /\ last.op = "loop"
    /\ last.statusCalls = 1
    /\ last.arg = TRUE
    /\ last.fired = 0
    /\ Count(last.logs, "connected successfully") = 1
    /\ lastTrigger # -1
    /\ reconnectAttempts = 0

\* ---- C2 --------------------------------------------------------------------
\* C2: when only loop() is called, the status callback returning false and
\* the reconnect callback true, each invocation of the reconnect callback
\* raises attemptCount by exactly 1 and comes no sooner than reconnectDelayMs
\* after the invocation before it.
C2_PollsOnly ==
    [][(IsPoll /\ last'.fired = 1) =>
        /\ reconnectAttempts' = reconnectAttempts + 1
        /\ (lastTrigger # -1 => now - lastTrigger >= reconnectDelayMs)]_vars

\* the second invocation of a run has happened
C2_Witness ==
    /\ last.op = "loop"
    /\ last.fired = 1
    /\ last.rr = TRUE
    /\ reconnectAttempts = 2
    /\ lastTrigger = now

\* ---- C3 --------------------------------------------------------------------
\* C3 as stated: under any interleaving of the six operations, two
\* consecutive invocations of the reconnect callback are at least
\* reconnectDelayMs apart.
C3_Original ==
    [][(IsPoll /\ last'.fired = 1 /\ lastTrigger # -1) =>
        now - lastTrigger >= reconnectDelayMs]_vars

\* C3 (amended): under any interleaving of the six operations, two
\* consecutive invocations of the reconnect callback with no reset() called
\* between them are at least reconnectDelayMs apart.
C3_MinimumDelay ==
    [][(IsPoll /\ last'.fired = 1 /\ lastTrigger # -1 /\ ~resetSince) =>
        now - lastTrigger >= reconnectDelayMs]_vars

\* a second invocation with no reset(), enable() or recovery since the first,
\* its attempt failing to start
C3_Witness ==
    /\ last.op = "loop"
    /\ last.fired = 1
    /\ last.rr = FALSE
    /\ triggers = 2
    /\ ~resetSince

\* ---- C4 --------------------------------------------------------------------
\* C4: from attemptCount = 0 with a fixed maxAttempts > 0, as long as there is
\* no enable(), no reset() and connected is never observed, the reconnect
\* callback is invoked at most maxAttempts times in all, and
\* 0 <= attemptCount <= maxAttempts in every state.
C4_Ceiling ==
    /\ triggers <= maxReconnectAttempts
    /\ reconnectAttempts >= 0
    /\ reconnectAttempts <= maxReconnectAttempts

\* the budget is used up, the delay has passed again, and a loop() invoked
\* nothing
C4_Witness ==
    /\ triggers = maxReconnectAttempts
    /\ last.op = "loop"
    /\ last.statusCalls = 1
    /\ last.fired = 0
    /\ now - lastConnectAttempt > reconnectDelayMs

\* ---- C5 --------------------------------------------------------------------
\* the state right after the loop() that made the maxAttempts-th invocation
AfterLastTrigger ==
    /\ last.op = "loop"
    /\ last.fired = 1
    /\ triggers = maxReconnectAttempts

\* C5 as stated: the loop() following the one that made the maxAttempts-th
\* invocation leaves enabled false and emits exactly one exhaustion error
\* (an error callback being set).
C5_Original ==
    [][(AfterLastTrigger /\ IsPoll /\ errorCallback) =>
        /\ ~shouldReconnect'
        /\ Count(last'.errors, MaxAttemptsText) = 1]_vars

\* C5 (amended): the loop() that makes the maxAttempts-th invocation itself
\* sets enabled = false and emits exactly one exhaustion error if an error
\* callback is set (none if not); the loop() following it changes no field
\* and emits no error.
C5_Exhaustion ==
    [][IsPoll =>
        /\ (last'.fired = 1 /\ triggers' = maxReconnectAttempts =>
               /\ shouldReconnect
               /\ ~shouldReconnect'
               /\ Count(last'.errors, MaxAttemptsText)
                      = IF errorCallback THEN 1 ELSE 0)
        /\ (AfterLastTrigger =>
               /\ UNCHANGED fields
               /\ last'.fired = 0
               /\ last'.errors = <<>>)]_vars

\* the loop() that made the last invocation has disabled the object and
\* reported it
C5_Witness ==
    /\ AfterLastTrigger
    /\ ~shouldReconnect
    /\ maxReconnectAttempts = 2
    /\ Count(last.errors, MaxAttemptsText) = 1

\* ---- C6 --------------------------------------------------------------------
\* C6: once enabled is false, no loop() invokes the reconnect callback and
\* enabled stays false until enable() is called; no other operation sets it.
C6_DisabledStays ==
    [][~shouldReconnect =>
        /\ (shouldReconnect' => IsCall("enable"))
        /\ (IsCall("loop") => last'.fired = 0)]_vars

\* disabled, and a loop() found the link down, attempts left and the delay
\* passed, after a recovery had been observed
C6_Witness ==
    /\ ~shouldReconnect
    /\ last.op = "loop"
    /\ last.statusCalls = 1
    /\ last.arg = FALSE
    /\ last.fired = 0
    /\ reconnectAttempts = 0
    /\ lastTrigger # -1
    /\ reconnectAttempts < maxReconnectAttempts
    /\ now - lastConnectAttempt > reconnectDelayMs

\* ---- C7 --------------------------------------------------------------------
\* C7: loop() called while the status or the reconnect callback is unset
\* changes no field and no configuration and invokes no callback.
C7_NoOp ==
    [][(IsCall("loop") /\ (~statusCallback \/ ~reconnectCallback)) =>
        /\ UNCHANGED <<fields, config, callbacks>>
        /\ last'.statusCalls = 0
        /\ last'.fired = 0
        /\ last'.logs = <<>>
        /\ last'.errors = <<>>]_vars

\* such a loop() was called with the budget used up and the object enabled,
\* the link having gone down unseen: the status callback is the unset one
C7_Witness ==
    /\ last.op = "loop"
    /\ last.statusCalls = 0
    /\ ~statusCallback
    /\ reconnectCallback
    /\ errorCallback
    /\ shouldReconnect
    /\ reconnectAttempts >= maxReconnectAttempts
    /\ now - lastConnectAttempt > reconnectDelayMs

\* ---- C8 --------------------------------------------------------------------
\* C8: enable() leaves enabled = true and attemptCount = 0 and changes
\* neither timestamp nor wasConnected; reset() zeroes attemptCount,
\* lastAttemptTime and connectionStartTime and changes neither enabled nor
\* wasConnected.
C8_EnableReset ==
    [][/\ IsCall("enable") =>
            /\ shouldReconnect'
            /\ reconnectAttempts' = 0
            /\ UNCHANGED <<lastConnectAttempt, connectionStartTime, wasConnected>>
       /\ IsCall("reset") =>
            /\ reconnectAttempts' = 0
            /\ lastConnectAttempt' = 0
            /\ connectionStartTime' = 0
            /\ UNCHANGED <<shouldReconnect, wasConnected>>]_vars

\* reset() was called after the attempts were used up: the object is still
\* disabled
C8_Witness ==
    /\ last.op = "reset"
    /\ resetSince
    /\ ~shouldReconnect
    /\ reconnectAttempts = 0
    /\ lastConnectAttempt = 0
    /\ now > 0

\* ---- C9 --------------------------------------------------------------------
\* C9: in every reachable state, whatever operations and configuration
\* setters were called, enabled = false implies attemptCount <= maxAttempts.
C9_DisabledWithinBudget ==
    ~shouldReconnect => reconnectAttempts <= maxReconnectAttempts

\* ---- C10 -------------------------------------------------------------------
\* C10: after onConnectionStatusChanged(c) wasConnected = c, after a loop()
\* with both callbacks set wasConnected is what the status callback returned,
\* and no other operation changes wasConnected.
C10_LastObservation ==
    [][IF IsCall("onConnectionStatusChanged") \/ IsPoll
       THEN wasConnected' = last'.arg
       ELSE wasConnected' = wasConnected]_vars

\* onConnectionStatusChanged(false) came while connected and disabled: no
\* branch of the method had anything to do
C10_Witness ==
    /\ last.op = "onConnectionStatusChanged"
    /\ last.arg = FALSE
    /\ ~wasConnected
    /\ ~shouldReconnect
    /\ logCallback
    /\ last.logs = <<>>
    /\ lastConnectAttempt < now
    /\ connectionStartTime = 0
    /\ reconnectAttempts = 0
    /\ triggers = 0
    /\ lastTrigger # -1

\* ---- C11 -------------------------------------------------------------------
\* the step delivers the change from connected to disconnected: an explicit
\* onConnectionStatusChanged(false), or a loop() whose status callback
\* returns false, while wasConnected is true
IsDisconnect ==
    /\ IsCall("onConnectionStatusChanged") \/ IsPoll
    /\ last'.arg = FALSE
    /\ wasConnected

DisconnectedText == "disconnected, will attempt reconnect"
ConnectedText == "connected successfully"

\* C11 as stated: every change from connected to disconnected leaves
\* attemptCount, connectionStartTime and enabled unchanged and records
\* lastAttemptTime = now.
C11_Original ==
    [][IsDisconnect =>
        /\ UNCHANGED <<reconnectAttempts, connectionStartTime, shouldReconnect>>
        /\ lastConnectAttempt' = now]_vars

\* C11 (amended): every change from connected to disconnected leaves
\* attemptCount, connectionStartTime and enabled unchanged; it records
\* lastAttemptTime = now if enabled is true and leaves lastAttemptTime
\* unchanged if enabled is false.
C11_Disconnect ==
    [][IsDisconnect =>
        /\ UNCHANGED <<reconnectAttempts, connectionStartTime, shouldReconnect>>
        /\ lastConnectAttempt' =
               IF shouldReconnect THEN now ELSE lastConnectAttempt]_vars

\* a loop() has observed the disconnect while enabled, later than the last
\* attempt, and recorded the time
C11_Witness ==
    /\ last.op = "loop"
    /\ last.arg = FALSE
    /\ Count(last.logs, DisconnectedText) = 1
    /\ shouldReconnect
    /\ lastConnectAttempt = now
    /\ connectionStartTime < now

\* ---- the scenarios of the specification's section 8 -------------------------
\* maxAttempts = 2, reconnectDelayMs = 100, both required callbacks set, the
\* log and error callbacks set or not, a fresh object at time 0.
InitScenario ==
    /\ shouldReconnect = TRUE
    /\ wasConnected = FALSE
    /\ lastConnectAttempt = 0
    /\ connectionStartTime = 0
    /\ reconnectAttempts = 0
    /\ maxReconnectAttempts = 2
    /\ reconnectDelayMs = 100
    /\ reconnectCallback = TRUE
    /\ statusCallback = TRUE
    /\ logCallback \in BOOLEAN
    /\ errorCallback \in BOOLEAN
    /\ now = 0
    /\ last = Plain("configure", <<>>)
    /\ triggers = 0
    /\ lastTrigger = -1
    /\ resetSince = FALSE
    /\ lastStarted = TRUE
    /\ dropTime = -1

\* 50 ms pass between two method calls
ScenarioAdvance ==
    /\ now < ScenarioEnd
    /\ now' = now + 50
    /\ UNCHANGED <<fields, config, callbacks, history>>

\* 50 ms pass; `last` notes that no method was called yet at the new time
ScenarioWait ==
    /\ now < ScenarioEnd
    /\ now' = now + 50
    /\ last' = Plain("wait", <<>>)
    /\ UNCHANGED <<fields, config, callbacks, triggers, lastTrigger, resetSince,
                   lastStarted, dropTime>>

\* First scenario: loop() is called once at each of t = 0, 50, 150, 300 and
\* at no time between them, then at any later time; the link stays down and
\* every attempt starts.
PollTimes == {0, 50, 150, 300}

TracePoll ==
    /\ \/ now \in PollTimes /\ last.op # "loop"
       \/ now > 300
    /\ loop(FALSE, TRUE)
    /\ Unobserved

TraceAdvance ==
    /\ now \in PollTimes => last.op = "loop"
    /\ ScenarioWait

NextTrace ==
    \/ TracePoll
    \/ TraceAdvance

SpecTrace == InitScenario /\ [][NextTrace]_vars

\* Second scenario: loop() is called at any times; the status callback
\* returns false in the first call and true from the second call on.
RecoverPoll == loop(last.op # "configure", TRUE) /\ Unobserved

NextRecover ==
    \/ RecoverPoll
    \/ ScenarioAdvance

SpecRecover == InitScenario /\ [][NextRecover]_vars

\* ---- C12 -------------------------------------------------------------------
\* loop() has just been called at time t
PolledAt(t) == last.op = "loop" /\ now = t

\* the exhaustion errors of the last call: one if an error callback is set
OneMaxAttemptsError ==
    Count(last.errors, MaxAttemptsText) = IF errorCallback THEN 1 ELSE 0

\* C12 as stated: the poll at t=0 fires attempt #1, the poll at t=50 fires
\* nothing, the poll at t=150 fires attempt #2 and leaves enabled true, the
\* poll at t=300 sets enabled = false and emits the single exhaustion error,
\* and no later poll fires an attempt.
C12_Original ==
    /\ PolledAt(0) => last.fired = 1 /\ reconnectAttempts = 1
    /\ PolledAt(50) => last.fired = 0
    /\ PolledAt(150) =>
           last.fired = 1 /\ reconnectAttempts = 2 /\ shouldReconnect
    /\ PolledAt(300) => ~shouldReconnect /\ OneMaxAttemptsError
    /\ (last.op = "loop" /\ now > 300) => last.fired = 0

\* C12 (amended): the polls at t=0 and t=50 fire nothing (attemptCount = 0),
\* the poll at t=150 fires attempt #1 (attemptCount = 1) and leaves enabled
\* true, the poll at t=300 fires attempt #2 (attemptCount = 2) and is the one
\* that sets enabled = false and emits the single exhaustion error, and no
\* later poll fires an attempt or emits an error.
C12_Trace ==
    /\ PolledAt(0) => last.fired = 0 /\ reconnectAttempts = 0
    /\ PolledAt(50) => last.fired = 0 /\ reconnectAttempts = 0
    /\ PolledAt(150) =>
           last.fired = 1 /\ reconnectAttempts = 1 /\ shouldReconnect
    /\ PolledAt(300) =>
           /\ last.fired = 1
           /\ reconnectAttempts = 2
           /\ ~shouldReconnect
           /\ OneMaxAttemptsError
    /\ (last.op = "loop" /\ now > 300) =>
           /\ last.fired = 0
           /\ last.errors = <<>>
           /\ reconnectAttempts = 2
           /\ ~shouldReconnect

\* a poll long after the exhaustion
C12_Witness ==
    /\ PolledAt(ScenarioEnd)
    /\ errorCallback
    /\ ~shouldReconnect
    /\ reconnectAttempts = 2
    /\ lastTrigger = 300

\* ---- C13 -------------------------------------------------------------------
\* the step is the second loop() of the run: the first has been called and
\* has left wasConnected false
IsSecondPoll == IsPoll /\ last.op # "configure" /\ ~wasConnected

\* C13: the second poll leaves attemptCount = 0 and emits exactly one
\* "connected successfully" log if a log callback is set; no later poll
\* emits that log again, sets enabled to false or emits the exhaustion error.
C13_Recovery ==
    [][/\ IsSecondPoll =>
            /\ reconnectAttempts' = 0
            /\ Count(last'.logs, ConnectedText) = IF logCallback THEN 1 ELSE 0
       /\ (IsPoll /\ wasConnected) =>
            /\ reconnectAttempts' = 0
            /\ Count(last'.logs, ConnectedText) = 0
       /\ (IsPoll /\ last.op # "configure") =>
            /\ shouldReconnect'
            /\ last'.fired = 0
            /\ Count(last'.errors, MaxAttemptsText) = 0]_vars

\* the first poll made an attempt, the second observed the recovery, and a
\* later poll found nothing to do
C13_Witness ==
    /\ last.op = "loop"
    /\ last.arg = TRUE
    /\ last.logs = <<>>
    /\ logCallback
    /\ wasConnected
    /\ shouldReconnect
    /\ reconnectAttempts = 0
    /\ lastTrigger # -1
    /\ now > lastTrigger

\* ---- C14 -------------------------------------------------------------------
\* A supervisor without callbacks for messages, written from the fields,
\* the configuration, the clock, the method called and what the status
\* callback returned: it reads neither logCallback nor errorCallback.
SilentStatus(s, connected) ==
    [s EXCEPT
        !.reconnectAttempts =
            IF connected /\ ~s.wasConnected THEN 0 ELSE @,
        !.connectionStartTime =
            IF connected /\ ~s.wasConnected THEN 0 ELSE @,
        !.lastConnectAttempt =
            IF ~connected /\ s.wasConnected /\ s.shouldReconnect THEN now ELSE @,
        !.wasConnected = connected]

SilentFires(s, connected) ==
    /\ statusCallback
    /\ reconnectCallback
    /\ ~connected
    /\ s.shouldReconnect
    /\ s.reconnectAttempts < maxReconnectAttempts
    /\ now - SilentStatus(s, connected).lastConnectAttempt > reconnectDelayMs

SilentLoop(s, connected) ==
    LET u == SilentStatus(s, connected)
        a == IF SilentFires(s, connected)
             THEN [u EXCEPT !.reconnectAttempts = @ + 1,
                            !.lastConnectAttempt = now,
                            !.connectionStartTime = now]
             ELSE u
    IN  IF ~statusCallback \/ ~reconnectCallback
        THEN s
        ELSE [a EXCEPT !.shouldReconnect =
                 @ /\ (connected \/ a.reconnectAttempts < maxReconnectAttempts)]

Silent(s, op, arg) ==
    CASE op = "enable" ->
             [s EXCEPT !.shouldReconnect = TRUE, !.reconnectAttempts = 0]
      [] op = "disable" -> [s EXCEPT !.shouldReconnect = FALSE]
      [] op = "reset" ->
             [s EXCEPT !.reconnectAttempts = 0,
                       !.lastConnectAttempt = 0,
                       !.connectionStartTime = 0]
      [] op = "onConnectionAttemptStarted" ->
             [s EXCEPT !.lastConnectAttempt = now, !.connectionStartTime = now]
      [] op = "onConnectionStatusChanged" -> SilentStatus(s, arg)
      [] op = "loop" -> SilentLoop(s, arg)
      [] OTHER -> s

\* C14: the fields after every method call, and whether the call invokes the
\* reconnect callback, are those of the supervisor without message
\* callbacks: for the same operations, clock values and callback results,
\* supervisors that differ only in the log and error callbacks go through
\* the same fields and make the same reconnect-callback invocations.
C14_MessagesApart ==
    [][now' = now =>
        /\ Self' = Silent(Self, last'.op, last'.arg)
        /\ last'.fired =
               IF last'.op = "loop" /\ SilentFires(Self, last'.arg)
               THEN 1 ELSE 0]_vars

\* a supervisor with neither message callback has made an attempt, seen the
\* recovery in a loop() and the next disconnect in another
C14_Witness ==
    /\ ~logCallback
    /\ ~errorCallback
    /\ last.op = "loop"
    /\ last.statusCalls = 1
    /\ last.arg = FALSE
    /\ last.logs = <<>>
    /\ lastTrigger # -1
    /\ triggers = 0
    /\ reconnectAttempts = 0
    /\ lastConnectAttempt = now
    /\ shouldReconnect

\* ---- C15 -------------------------------------------------------------------
\* C15: no loop() with both callbacks set ends with enabled true, the status
\* callback having returned false, and attemptCount >= maxAttempts; the
\* loop() whose attempt brings attemptCount to maxAttempts sets
\* enabled = false and emits the exhaustion error (an error callback being
\* set) in that same call.
C15_SameCycle ==
    [][IsPoll =>
        /\ ~(/\ shouldReconnect'
             /\ ~last'.arg
             /\ reconnectAttempts' >= maxReconnectAttempts)
        /\ (last'.fired = 1 /\ reconnectAttempts' = maxReconnectAttempts) =>
               /\ ~shouldReconnect'
               /\ Count(last'.errors, MaxAttemptsText)
                      = IF errorCallback THEN 1 ELSE 0]_vars

\* a loop() made the attempt that used up the budget of 2, failed to start
\* it, and stopped
C15_Witness ==
    /\ last.op = "loop"
    /\ last.fired = 1
    /\ last.rr = FALSE
    /\ Len(last.errors) = 2
    /\ reconnectAttempts = 2
    /\ maxReconnectAttempts = 2
    /\ ~shouldReconnect

\* ---- C17 -------------------------------------------------------------------
\* the step delivers the change from disconnected to connected
IsConnect ==
    /\ IsCall("onConnectionStatusChanged") \/ IsPoll
    /\ last'.arg = TRUE
    /\ ~wasConnected

\* C17: the change from disconnected to connected, by an explicit call or in
\* loop(), sets attemptCount = 0 and connectionStartTime = 0, emits the
\* "connected successfully" log once if a log callback is set, and leaves
\* enabled and lastAttemptTime unchanged; onConnectionStatusChanged(c) with
\* c = wasConnected changes no field and emits no log.
C17_Connect ==
    [][/\ IsConnect =>
            /\ reconnectAttempts' = 0
            /\ connectionStartTime' = 0
            /\ wasConnected'
            /\ Count(last'.logs, ConnectedText) = IF logCallback THEN 1 ELSE 0
            /\ Len(last'.logs) = IF logCallback THEN 1 ELSE 0
            /\ UNCHANGED <<shouldReconnect, lastConnectAttempt>>
       /\ (IsCall("onConnectionStatusChanged") /\ last'.arg = wasConnected) =>
            /\ UNCHANGED fields
            /\ last'.logs = <<>>]_vars

\* the recovery was delivered by an explicit call after an attempt, the
\* object being disabled
C17_Witness ==
    /\ last.op = "onConnectionStatusChanged"
    /\ last.arg = TRUE
    /\ Count(last.logs, ConnectedText) = 1
    /\ lastTrigger # -1
    /\ lastConnectAttempt > 0
    /\ reconnectAttempts = 0
    /\ connectionStartTime = 0
    /\ ~shouldReconnect

\* ---- C18 -------------------------------------------------------------------
\* C18: in the state enable() leaves, another enable() changes no field, and
\* so for disable(); disable() changes only enabled.
C18_Idempotent ==
    /\ [](last.op = "enable" => ~ENABLED (enable /\ fields' # fields))
    /\ [](last.op = "disable" => ~ENABLED (disable /\ fields' # fields))
    /\ [][IsCall("disable") =>
            /\ ~shouldReconnect'
            /\ UNCHANGED <<reconnectAttempts, lastConnectAttempt,
                           connectionStartTime, wasConnected>>]_vars

\* disable() was called with attempts made and the link seen up since
C18_Witness ==
    /\ last.op = "disable"
    /\ ~shouldReconnect
    /\ reconnectAttempts > 0
    /\ lastConnectAttempt > 0
    /\ connectionStartTime > 0
    /\ logCallback
    /\ Len(last.logs) = 1

\* ---- the six operations, with the record of lastStarted and dropTime ------
LoopObserved == \E c \in BOOLEAN, r \in BOOLEAN : loop(c, r) /\ Observe(c, r)

NextObserved ==
    \/ enable
    \/ disable
    \/ reset
    \/ onConnectionAttemptStarted
    \/ OnConnectionStatusChanged
    \/ LoopObserved
    \/ Tick

SpecObserved == InitConfigured /\ [][NextObserved]_vars

\* ---- C16 -------------------------------------------------------------------
FailedToStartText == "reconnect attempt failed to start"

\* the first two parts of C16: what a triggering poll() does to the fields,
\* and when the error is emitted
TriggerEffect ==
    /\ (IsPoll /\ last'.fired = 1) =>
          /\ reconnectAttempts' = reconnectAttempts + 1
          /\ lastConnectAttempt' = now
          /\ connectionStartTime' = now
    /\ IsPoll =>
          Count(last'.errors, FailedToStartText) =
              IF last'.fired = 1 /\ ~last'.rr /\ errorCallback THEN 1 ELSE 0

\* C16 as stated: a triggering poll() increments attemptCount and sets
\* lastAttemptTime and connectionStartTime to now whatever the reconnect
\* callback returns; the "failed to start" error is emitted exactly when the
\* callback returns false and an error callback is registered; and after a
\* failed initiation the next trigger is at least reconnectDelayMs later.
C16_Original ==
    [][/\ TriggerEffect
       /\ (IsPoll /\ last'.fired = 1 /\ lastTrigger # -1 /\ ~lastStarted) =>
             now - lastTrigger >= reconnectDelayMs]_vars

\* C16 (amended): the same, the last part holding when no reset() was called
\* since the failed initiation.
C16_FailedStart ==
    [][/\ TriggerEffect
       /\ (/\ IsPoll /\ last'.fired = 1
           /\ lastTrigger # -1 /\ ~lastStarted /\ ~resetSince) =>
             now - lastTrigger >= reconnectDelayMs]_vars

\* a second trigger in a row, after one that failed to start, failed to start
\* as well and its error was reported, and no reset() came in between
C16_Witness ==
    /\ last.op = "loop"
    /\ last.fired = 1
    /\ ~last.rr
    /\ ~lastStarted
    /\ Count(last.errors, FailedToStartText) = 1
    /\ triggers = 2
    /\ reconnectAttempts = 2
    /\ lastConnectAttempt = now
    /\ connectionStartTime = now
    /\ ~resetSince

LiveTick ==
    /\ ULongSub(Millis, lastConnectAttempt) <= reconnectDelayMs
    /\ now' = now + 1
    /\ UNCHANGED <<fields, config, callbacks, history>>

NextLive ==
    \/ PollDown
    \/ LiveTick

\* loop() is called again and again and the clock goes on
SpecLive ==
    /\ InitConfigured
    /\ [][NextLive]_vars
    /\ WF_vars(PollDown)
    /\ WF_vars(LiveTick)

\* ---- C20 -------------------------------------------------------------------
\* C20: both callbacks set, enabled, maxAttempts > 0 fixed, the status callback
\* always returning false, the clock advancing, poll() called again and again
\* and nothing else: from some point on enabled = false, attemptCount =
\* maxAttempts and the reconnect callback has been invoked maxAttempts times
\* in all, for ever (so it is not invoked again).
C20_Exhausts ==
    <>[](/\ ~shouldReconnect
         /\ reconnectAttempts = maxReconnectAttempts
         /\ triggers = maxReconnectAttempts)

\* a poll() after the exhaustion, of the largest budget with the longest delay
C20_Witness ==
    /\ last.op = "loop"
    /\ last.fired = 0
    /\ ~shouldReconnect
    /\ maxReconnectAttempts = MaxAttemptsArg
    /\ reconnectDelayMs = MaxDelayArg
    /\ reconnectAttempts = maxReconnectAttempts
    /\ triggers = maxReconnectAttempts
    /\ now = MaxAttemptsArg * (MaxDelayArg + 1)

====
